---------------------------- MODULE Spec2Model ----------------------------
(***************************************************************************)
(* Journey Assist: the navigation orchestrator of src/app/page.tsx (Home), *)
(* the destination control of src/components/destination-search.tsx, the   *)
(* route comparison sheet (RouteComparison) and the route comparator of    *)
(* src/lib/services/mapboxService.ts.                                      *)
(*                                                                         *)
(* A route is the record of its two compared fields, distance (meters)     *)
(* and duration (seconds); both are non-negative integers here (the code   *)
(* holds them as IEEE doubles).  Two routes with equal fields are never    *)
(* significantly different, so no route list built by the orchestrator     *)
(* holds two equal records and object identity (===) coincides with        *)
(* equality of records.                                                    *)
(*                                                                         *)
(* The intent parser (llmService, src/unnamed/part_008) is modelled on an  *)
(* utterance given as the sequence of its words.                           *)
(*                                                                         *)
(* An async handler is two actions: the part before its await and the part *)
(* that runs when the awaited routing call settles.  What the second part  *)
(* reads from its closure is kept in the request record.                   *)
(***************************************************************************)
EXTENDS Integers, Sequences, FiniteSets, Bags, TLC

VARIABLES
    navigationState,    \* page.tsx:22
    destination,        \* page.tsx:23
    route,              \* page.tsx:24
    alternativeRoutes,  \* page.tsx:25
    selectedRouteIndex, \* page.tsx:26 (0-based)
    showComparison,     \* page.tsx:27
    isCalculatingRoute, \* page.tsx:28
    selectedIndex,      \* RouteComparison local state (0-based), 0 at mount
    notice,             \* the last alert() shown by a handler of page.tsx
    timers,             \* pending setTimeout callbacks of handleSearch, in firing order
    pending,            \* bag of the routing calls in flight
    cmpPc, cmpA, cmpB, cmpOut,      \* one evaluation of isSignificantlyDifferent
    ddPc, ddRef, ddCands, ddOut,    \* one evaluation of the route-list construction
    prPc,               \* position of one parseRouteRequest call (llmService)
    openaiApiKey,       \* process.env.OPENAI_API_KEY
    anthropicApiKey,    \* process.env.ANTHROPIC_API_KEY
    userRequest,        \* request.userRequest, as its sequence of words
    currentParams,      \* request.currentRoute.currentParams
    strategies,         \* the strategies entered for the request, in order
    response,           \* what parseRouteRequest resolved with
    epPc,               \* position of one POST to the intent endpoint
    epRequest,          \* the request body as request.json() yields it
    epStatus,           \* status of the endpoint's response (0: none yet)
    epReply,            \* body of the endpoint's response
    epParserCalls,      \* calls of parseRouteRequest made by the POST
    token,              \* mapboxService.ts:8, process.env.NEXT_PUBLIC_MAPBOX_TOKEN
    geolocation,        \* whether the browser has navigator.geolocation
    fetched,            \* whether the routing service has issued a network request
    captured,           \* currentLocation in the closure of each pending timer
    origin,             \* the origin of the latest routing call (page.tsx:60, 88)
    watches,            \* the watchPosition registrations not yet cleared
    oneShots,           \* the getCurrentPosition requests not yet settled
    coordinates,        \* useGeolocation.ts:33
    error,              \* useGeolocation.ts:34
    loading,            \* useGeolocation.ts:35
    locationError,      \* page.tsx:29
    watchFix,           \* the fix the active watch delivered last, if the hook holds it
    isListening,        \* part_005:15 (isListeningRef follows it, lines 24-26)
    isRecording,        \* part_005:16
    transcription,      \* part_005:17
    recognition,        \* the SpeechRecognition object of recognitionRef
    recordingStateRef,  \* part_005:20, the recording it refers to (0: null)
    permissionRequests, \* startListening calls awaiting requestMicrophonePermission
    wakeTimers,         \* pending 500 ms timers of onresult
    acquiring,          \* handleWakeWordDetected calls awaiting getUserMedia
    recordings,         \* the recordings startRecording created, by number
    uploads,            \* sendToServer calls in flight
    detections          \* wake-word detections so far

orchVars == <<navigationState, destination, route, alternativeRoutes,
              selectedRouteIndex, showComparison, isCalculatingRoute,
              selectedIndex, notice, timers, pending,
              fetched, captured, origin,
              watches, oneShots, coordinates, error, loading, locationError,
              watchFix>>
reqVars == <<fetched, captured, origin>>
geoVars == <<watches, oneShots, coordinates, error, loading, locationError,
             watchFix>>
envVars == <<token, geolocation>>
cmpVars == <<cmpPc, cmpA, cmpB, cmpOut>>
ddVars == <<ddPc, ddRef, ddCands, ddOut>>
prVars == <<prPc, openaiApiKey, anthropicApiKey, userRequest, currentParams,
            strategies, response>>
epVars == <<epPc, epRequest, epStatus, epReply, epParserCalls>>
voiceVars == <<isListening, isRecording, transcription, recognition,
               recordingStateRef, permissionRequests, wakeTimers, acquiring,
               recordings, uploads, detections>>
sideVars == <<epVars, envVars, voiceVars>>
pureVars == <<cmpVars, ddVars, prVars, sideVars>>
vars == <<orchVars, cmpVars, ddVars, prVars, sideVars>>

-----------------------------------------------------------------------------
(* Bounds *)

MaxOutstanding == 2 \* deferred activations plus routing calls in flight
MaxAlts == 1        \* routes in one getAlternativeRoutes reply
MaxCands == 3       \* candidates in one evaluation of the list construction
MaxWords == 3       \* words in one utterance
MaxOneShots == 2    \* one-shot location requests not yet settled
MaxDetections == 2  \* wake-word detections in one run of the voice hook
MaxPermissionRequests == 1 \* startListening calls awaiting the permission

-----------------------------------------------------------------------------
(* Values *)

Null == "null"
Dests == {"d1", "d2"}

MkRoute(dist, dur) == [distance |-> dist, duration |-> dur]
NullRoute == [distance |-> -1, duration |-> -1]

\* what the routing provider may return in the orchestrator runs
Routes == {MkRoute(100, 60), MkRoute(105, 60), MkRoute(112, 60)}

\* inputs of the comparator runs
CmpDistances == {0, 9, 10, 11, 12, 100, 110, 111, 10000, 10500, 12000}
CmpDurations == {0, 17, 20, 23, 24, 1200, 1250}
CmpRoutes == {MkRoute(d, t) : d \in CmpDistances, t \in CmpDurations}

\* inputs of the list-construction runs
DdRoutes == Routes \cup {MkRoute(130, 90), MkRoute(100, 70)}

SeqsUpTo(S, n) == UNION {[1..k -> S] : k \in 0..n}

\* the replies of getAlternativeRoutes: it throws on an empty routes array
AltReplies == SeqsUpTo(Routes, MaxAlts) \ {<<>>}

\* a routing call in flight, with what its continuation reads: the call
\* (getRoute or getAlternativeRoutes), the destination it was issued for and,
\* for handleModifyRoute, the route of the render that issued it
RouteReq(d) == [kind |-> "route", dest |-> d, route |-> NullRoute]
AltReq(d, r) == [kind |-> "alternatives", dest |-> d, route |-> r]

-----------------------------------------------------------------------------
(* mapboxService.ts: isSignificantlyDifferent *)

DistanceThresholdPct == 10
DurationThresholdPct == 15

Abs(x) == IF x < 0 THEN -x ELSE x

\* the comparison with the division guarded: a zero denominator never exceeds
RatioExceeds_zeroGuard(num, den, pct) ==
    IF den = 0 THEN FALSE
    ELSE num * 100 > pct * den

\* num / den > pct / 100 as the double division decides it for num >= 0,
\* den >= 0: x/0 is Infinity for x > 0 (greater than anything), 0/0 is NaN
\* (every comparison with NaN is false)
RatioExceeds(num, den, pct) ==
    IF den = 0 THEN num > 0
    ELSE num * 100 > pct * den

\* the comparator reading route2.duration in the distance difference
isSignificantlyDifferent_mixedFields(route1, route2) ==
    LET distanceDiffNum == Abs(route1.distance - route2.duration)
        durationDiffNum == Abs(route1.duration - route2.duration)
    IN  \/ RatioExceeds(distanceDiffNum, route1.distance, DistanceThresholdPct)
        \/ RatioExceeds(durationDiffNum, route1.duration, DurationThresholdPct)

\* the comparator with the second route in the denominators
isSignificantlyDifferent_denom2(route1, route2) ==
    LET distanceDiffNum == Abs(route1.distance - route2.distance)
        durationDiffNum == Abs(route1.duration - route2.duration)
    IN  \/ RatioExceeds(distanceDiffNum, route2.distance, DistanceThresholdPct)
        \/ RatioExceeds(durationDiffNum, route2.duration, DurationThresholdPct)

isSignificantlyDifferent(route1, route2) ==
    LET distanceDiffNum == Abs(route1.distance - route2.distance)
        durationDiffNum == Abs(route1.duration - route2.duration)
    IN  \/ RatioExceeds(distanceDiffNum, route1.distance, DistanceThresholdPct)
        \/ RatioExceeds(durationDiffNum, route1.duration, DurationThresholdPct)

-----------------------------------------------------------------------------
(* page.tsx: the route list of handleModifyRoute *)

RECURSIVE uniqueRoutesFrom(_, _)
\* the for-loop of page.tsx:102-111 over the rest of the reply, acc = uniqueRoutes
uniqueRoutesFrom(alts, acc) ==
    IF alts = <<>> THEN acc
    ELSE LET alt == Head(alts)
             isDuplicate == \E k \in 1..Len(acc) : ~isSignificantlyDifferent(acc[k], alt)
         IN  uniqueRoutesFrom(Tail(alts), IF isDuplicate THEN acc ELSE Append(acc, alt))

\* the reply taken as it is, without the loop that drops near-duplicates
uniqueRoutes_undeduplicated(alternatives) == alternatives

\* page.tsx:101-111
uniqueRoutes(alternatives) == uniqueRoutesFrom(alternatives, <<>>)

differentRoutes(current, alternatives) ==
    LET Differs(alt) == isSignificantlyDifferent(current, alt)
    IN  SelectSeq(uniqueRoutes(alternatives), Differs)

\* the route list without the filter against the current route
allRoutes_unfiltered(current, alternatives) ==
    IF current # NullRoute
    THEN <<current>> \o uniqueRoutes(alternatives)
    ELSE uniqueRoutes(alternatives)

\* the route list with the current route appended instead of prepended
allRoutes_currentLast(current, alternatives) ==
    IF current # NullRoute
    THEN differentRoutes(current, alternatives) \o <<current>>
    ELSE uniqueRoutes(alternatives)

allRoutes(current, alternatives) ==
    IF current # NullRoute
    THEN <<current>> \o differentRoutes(current, alternatives)
    ELSE uniqueRoutes(alternatives)

\* Array.prototype.findIndex with (r) => r === x, 0-based, -1 when absent
findIndex(seq, x) ==
    IF \E i \in 1..Len(seq) : seq[i] = x
    THEN (CHOOSE i \in 1..Len(seq) : seq[i] = x /\ \A j \in 1..(i-1) : seq[j] # x) - 1
    ELSE -1

-----------------------------------------------------------------------------
(* llmService (src/unnamed/part_008): values *)

\* an optional value: undefined, or the value present
Undefined == {}
Some(x) == {x}
Value(opt) == CHOOSE x \in opt : TRUE

\* process.env values: not set, set to the empty string, set to a key
Unset == "<unset>"
KeyValues == {Unset, "", "sk-key"}
\* truthiness of a string | undefined in `if (openaiApiKey)`
configured(key) == key # Unset /\ key # ""

\* An utterance is the sequence of its words, separated by single blanks.
Words == {"Scenic", "scenery", "avoid", "no", "highway", "highways", "toll",
          "fastest", "quickest", "shortest", "alternative", "different",
          "asdkjasd"}
\* the words of the utterances sent through the provider chain
ChainWords == {"Scenic", "avoid", "toll", "asdkjasd"}

MkParams(avoid, waypoints, profile) ==
    [avoid |-> avoid, waypoints |-> waypoints, profile |-> profile]
MkResponse(params, explanation) ==
    [modifiedParams |-> params, explanation |-> explanation]
NoResponse == MkResponse(MkParams(Undefined, Undefined, Undefined), "")

CurrentParamsValues ==
    { Undefined,
      Some(MkParams(Undefined, Undefined, Some("driving"))),
      Some(MkParams(Some(<<"toll">>), Undefined, Some("walking"))) }

\* what the awaited fetch and the two parses of a provider call can produce
Failures == {"network-error", "non-2xx", "malformed-json"}
Contents ==
    [avoid : {Undefined, Some(<<>>), Some(<<"toll">>)},
     waypoints : {Undefined},
     profile : {Undefined, Some("cycling"), Some("flying")},
     explanation : {Undefined, Some(""), Some("Avoiding toll roads.")}]
NoContent ==
    [avoid |-> Undefined, waypoints |-> Undefined, profile |-> Undefined,
     explanation |-> Undefined]
Replies ==
    {[kind |-> k, content |-> NoContent] : k \in Failures}
       \cup {[kind |-> "json", content |-> c] : c \in Contents}

-----------------------------------------------------------------------------
(* llmService: parseWithRules *)

\* String.prototype.toLowerCase on one word
toLowerCaseWord(w) == IF w = "Scenic" THEN "scenic" ELSE w
toLowerCase(text) == [i \in 1..Len(text) |-> toLowerCaseWord(text[i])]

\* the word w starts with the keyword k
startsWith(w, k) == w = k \/ (w = "highways" /\ k = "highway")

\* String.prototype.includes for a phrase of one or two keywords: the phrase
\* is a substring of the text
includes(text, phrase) ==
    \E i \in 1..(Len(text) - Len(phrase) + 1) :
       \A j \in 1..Len(phrase) :
          IF j = Len(phrase)
          THEN startsWith(text[i + j - 1], phrase[j])
          ELSE text[i + j - 1] = phrase[j]

\* the matcher with the toll family tested before the scenic family
parseWithRules_tollFirst(request) ==
    LET text == toLowerCase(request)
    IN  IF includes(text, <<"avoid", "toll">>)
        THEN MkResponse(MkParams(Some(<<"toll">>), Undefined, Some("driving")),
                        "I'll find a route that avoids toll roads.")
        ELSE IF includes(text, <<"scenic">>) \/ includes(text, <<"scenery">>)
        THEN MkResponse(MkParams(Some(<<"motorway">>), Undefined, Some("driving")),
                        "I'll route you through scenic backroads, avoiding highways.")
        ELSE IF includes(text, <<"avoid", "highway">>)
                \/ includes(text, <<"no", "highway">>)
        THEN MkResponse(MkParams(Some(<<"motorway">>), Undefined, Some("driving")),
                        "I'll find a route that avoids highways.")
        ELSE IF includes(text, <<"fastest">>) \/ includes(text, <<"quickest">>)
        THEN MkResponse(MkParams(Undefined, Undefined, Some("driving-traffic")),
                        "I'll find the fastest route considering traffic.")
        ELSE IF includes(text, <<"shortest">>)
        THEN MkResponse(MkParams(Undefined, Undefined, Some("driving")),
                        "I'll find the shortest route.")
        ELSE IF includes(text, <<"alternative">>) \/ includes(text, <<"different">>)
        THEN MkResponse(MkParams(Undefined, Undefined, Some("driving")),
                        "I'll find an alternative route for you.")
        ELSE MkResponse(MkParams(Undefined, Undefined, Some("driving")),
                        "I'll modify your route based on your request.")

\* the matcher missing the assignment of avoid in the highway branch
parseWithRules_highwayUnset(request) ==
    LET text == toLowerCase(request)
    IN  IF includes(text, <<"scenic">>) \/ includes(text, <<"scenery">>)
        THEN MkResponse(MkParams(Some(<<"motorway">>), Undefined, Some("driving")),
                        "I'll route you through scenic backroads, avoiding highways.")
        ELSE IF includes(text, <<"avoid", "highway">>)
                \/ includes(text, <<"no", "highway">>)
        THEN MkResponse(MkParams(Undefined, Undefined, Some("driving")),
                        "I'll find a route that avoids highways.")
        ELSE IF includes(text, <<"avoid", "toll">>)
        THEN MkResponse(MkParams(Some(<<"toll">>), Undefined, Some("driving")),
                        "I'll find a route that avoids toll roads.")
        ELSE IF includes(text, <<"fastest">>) \/ includes(text, <<"quickest">>)
        THEN MkResponse(MkParams(Undefined, Undefined, Some("driving-traffic")),
                        "I'll find the fastest route considering traffic.")
        ELSE IF includes(text, <<"shortest">>)
        THEN MkResponse(MkParams(Undefined, Undefined, Some("driving")),
                        "I'll find the shortest route.")
        ELSE IF includes(text, <<"alternative">>) \/ includes(text, <<"different">>)
        THEN MkResponse(MkParams(Undefined, Undefined, Some("driving")),
                        "I'll find an alternative route for you.")
        ELSE MkResponse(MkParams(Undefined, Undefined, Some("driving")),
                        "I'll modify your route based on your request.")

\* parseWithRules(request), on request.userRequest
parseWithRules(request) ==
    LET text == toLowerCase(request)
    IN  IF includes(text, <<"scenic">>) \/ includes(text, <<"scenery">>)
        THEN MkResponse(MkParams(Some(<<"motorway">>), Undefined, Some("driving")),
                        "I'll route you through scenic backroads, avoiding highways.")
        ELSE IF includes(text, <<"avoid", "highway">>)
                \/ includes(text, <<"no", "highway">>)
        THEN MkResponse(MkParams(Some(<<"motorway">>), Undefined, Some("driving")),
                        "I'll find a route that avoids highways.")
        ELSE IF includes(text, <<"avoid", "toll">>)
        THEN MkResponse(MkParams(Some(<<"toll">>), Undefined, Some("driving")),
                        "I'll find a route that avoids toll roads.")
        ELSE IF includes(text, <<"fastest">>) \/ includes(text, <<"quickest">>)
        THEN MkResponse(MkParams(Undefined, Undefined, Some("driving-traffic")),
                        "I'll find the fastest route considering traffic.")
        ELSE IF includes(text, <<"shortest">>)
        THEN MkResponse(MkParams(Undefined, Undefined, Some("driving")),
                        "I'll find the shortest route.")
        ELSE IF includes(text, <<"alternative">>) \/ includes(text, <<"different">>)
        THEN MkResponse(MkParams(Undefined, Undefined, Some("driving")),
                        "I'll find an alternative route for you.")
        ELSE MkResponse(MkParams(Undefined, Undefined, Some("driving")),
                        "I'll modify your route based on your request.")

-----------------------------------------------------------------------------
(* The intent endpoint (src/unnamed/part_002): values *)

\* a request body: request.json() throws, or yields null, or yields an
\* object with optional userRequest and currentRoute; userRequest is a
\* string (its words) or another truthy JSON value
MkBody(kind, request, routeContext) ==
    [kind |-> kind, userRequest |-> request, currentRoute |-> routeContext]
UnparsableBody == MkBody("unparsable", Undefined, Undefined)
NullBody == MkBody("null", Undefined, Undefined)
BodyRequests ==
    {Undefined}
       \cup {Some([type |-> "string", words |-> w]) : w \in SeqsUpTo(ChainWords, MaxWords)}
       \cup {Some([type |-> "number", words |-> <<>>])}
BodyRoutes ==
    {Undefined}
       \cup {Some([origin |-> o, destination |-> d]) :
                o \in {Undefined, Some("origin")},
                d \in {Undefined, Some("destination")}}
Bodies ==
    {UnparsableBody, NullBody}
       \cup {MkBody("object", u, r) : u \in BodyRequests, r \in BodyRoutes}

\* `!x` for an optional JSON value: undefined and the empty string are falsy
falsy(opt) ==
    \/ opt = Undefined
    \/ (Value(opt).type = "string" /\ Value(opt).words = <<>>)

MkReply(kind, content) == [kind |-> kind, content |-> content]
NoReply == MkReply("none", NoResponse)
MissingFieldsReply == MkReply("Missing required fields: userRequest and currentRoute", NoResponse)
MissingEndsReply == MkReply("Missing origin or destination in currentRoute", NoResponse)
FailedReply == MkReply("Failed to process route modification request", NoResponse)

-----------------------------------------------------------------------------
(* Rendering (page.tsx:165-220) *)

DestinationSearchShown == navigationState = "idle"
NavigationInfoShown == navigationState = "navigating" /\ route # NullRoute
RouteComparisonShown == showComparison /\ Len(alternativeRoutes) > 0

\* local state of RouteComparison after a render with the given props:
\* kept while it stays mounted, useState(0) at a mount
selectedIndexAfter(show, routes) ==
    IF RouteComparisonShown /\ show /\ Len(routes) > 0 THEN selectedIndex ELSE 0

InFlight == BagToSet(pending)
Outstanding == Len(timers) + BagCardinality(pending)
Issue(q) == pending (+) SetToBag({q})
Settle(q) == pending (-) SetToBag({q})

-----------------------------------------------------------------------------
(* mapboxService.ts: the token check of the routing calls *)

Tokens == {Unset, "", "pk.token"}
ServiceMethods == {"searchPlaces", "retrievePlace", "getRoute", "getAlternativeRoutes"}

\* a call of the service up to its first await, without the token check
firstStep_noTokenCheck(method, blankQuery, key) ==
    IF method = "searchPlaces" /\ blankQuery
    THEN "empty-result"
    ELSE "fetch"

\* a call of the service up to its first await: what it does first
firstStep(method, blankQuery, key) ==
    IF ~configured(key)
    THEN "configuration-error"
    ELSE IF method = "searchPlaces" /\ blankQuery
         THEN "empty-result"
         ELSE "fetch"

-----------------------------------------------------------------------------
(* mapboxService.ts: the places of a search *)

PlaceholderCoordinates == <<0, 0>>
RetrievedCoordinates == [d1 |-> <<-84, 33>>, d2 |-> <<-122, 37>>]

\* the Place searchPlaces builds for the suggestion with the given id
searchPlaces(id) == [id |-> id, coordinates |-> PlaceholderCoordinates]

\* the Place retrievePlace resolves with for the given id
retrievePlace(id) == [id |-> id, coordinates |-> RetrievedCoordinates[id]]

\* the coordinates of the Destination handleSearch builds from a suggestion
destinationCoordinates(d) == searchPlaces(d).coordinates

-----------------------------------------------------------------------------
(* useGeolocation.ts, geolocation service, page.tsx: location *)

DefaultOrigin == "-122.4194,37.7749"
Fixes == {"-84.3880,33.7490"}
Unsupported == "Geolocation is not supported by this browser"
PositionErrors == {"Location access denied by user",
                   "Location information unavailable",
                   "Location request timed out"}

\* page.tsx: getOrigin, over the currentLocation of the render it belongs to
getOrigin(currentLocation) ==
    IF currentLocation # Null THEN currentLocation ELSE DefaultOrigin

\* fetchLocation: a one-shot request; it rejects at once without the API
fetchLocation ==
    IF geolocation
    THEN /\ oneShots < MaxOneShots
         /\ oneShots' = oneShots + 1
         /\ loading' = TRUE
         /\ error' = Null
         /\ locationError' = Null
         /\ UNCHANGED coordinates
    ELSE /\ error' = Unsupported
         /\ locationError' = Unsupported
         /\ coordinates' = Null
         /\ loading' = FALSE
         /\ UNCHANGED oneShots

\* the state after mount: watch is false, the effect calls fetchLocation
mounted ==
    /\ watches = 0
    /\ oneShots = (IF geolocation THEN 1 ELSE 0)
    /\ coordinates = Null
    /\ error = (IF geolocation THEN Null ELSE Unsupported)
    /\ locationError = (IF geolocation THEN Null ELSE Unsupported)
    /\ loading = geolocation
    /\ watchFix = Null

\* the effect of useGeolocation without the cleanup of the watch
useGeolocation_noCleanup ==
    LET was == navigationState = "navigating"
        now == navigationState' = "navigating"
    IN  IF was = now
        THEN UNCHANGED geoVars
        ELSE IF now
             THEN IF geolocation
                  THEN /\ watches' = watches + 1
                       /\ watchFix' = Null
                       /\ UNCHANGED <<oneShots, coordinates, error, loading,
                                      locationError>>
                  ELSE /\ error' = Unsupported
                       /\ locationError' = Unsupported
                       /\ coordinates' = Null
                       /\ loading' = FALSE
                       /\ UNCHANGED <<watches, oneShots, watchFix>>
             ELSE /\ watches' = watches
                  /\ watchFix' = Null
                  /\ fetchLocation

\* the effect of useGeolocation over a commit: it runs when watch, which is
\* navigationState === "navigating" (page.tsx:30-32), changes; the cleanup of
\* the previous run comes first
useGeolocation ==
    LET was == navigationState = "navigating"
        now == navigationState' = "navigating"
    IN  IF was = now
        THEN UNCHANGED geoVars
        ELSE IF now
             THEN IF geolocation
                  THEN /\ watches' = watches + 1
                       /\ watchFix' = Null
                       /\ UNCHANGED <<oneShots, coordinates, error, loading,
                                      locationError>>
                  ELSE /\ error' = Unsupported
                       /\ locationError' = Unsupported
                       /\ coordinates' = Null
                       /\ loading' = FALSE
                       /\ UNCHANGED <<watches, oneShots, watchFix>>
             ELSE /\ watches' = (IF geolocation THEN watches - 1 ELSE watches)
                  /\ watchFix' = Null
                  /\ fetchLocation

-----------------------------------------------------------------------------
(* microphoneService.ts, useMicrophone (src/unnamed/part_005): values *)

\* a recording of startRecording: whether its MediaRecorder records and its
\* ScriptProcessorNode is connected, and the silenceTimer of its closure
\* (none: null, armed: a pending timeout, fired: the handle of a timeout
\* that has fired)
MkRecording(active, silenceTimer) == [active |-> active, silenceTimer |-> silenceTimer]
NoRecording == MkRecording(FALSE, "unused")

\* the number startRecording gives the next recording
nextRecording ==
    IF \E id \in 1..MaxDetections : recordings[id] = NoRecording
    THEN CHOOSE id \in 1..MaxDetections :
            /\ recordings[id] = NoRecording
            /\ \A other \in 1..(id - 1) : recordings[other] # NoRecording
    ELSE 0

-----------------------------------------------------------------------------
(* Initial state *)

InitPage ==
    /\ navigationState = "idle"
    /\ destination = Null
    /\ route = NullRoute
    /\ alternativeRoutes = <<>>
    /\ selectedRouteIndex = 0
    /\ showComparison = FALSE
    /\ isCalculatingRoute = FALSE
    /\ selectedIndex = 0
    /\ notice = "none"
    /\ timers = <<>>
    /\ pending = EmptyBag
    /\ fetched = FALSE
    /\ captured = <<>>
    /\ origin = Null

\* the page with a routing token, in a browser without navigator.geolocation
InitOrch ==
    /\ token = "pk.token"
    /\ geolocation = FALSE
    /\ InitPage
    /\ mounted

IdleCmp ==
    /\ cmpPc = "off"
    /\ cmpA = NullRoute
    /\ cmpB = NullRoute
    /\ cmpOut = FALSE

IdleDd ==
    /\ ddPc = "off"
    /\ ddRef = NullRoute
    /\ ddCands = <<>>
    /\ ddOut = <<>>

IdlePr ==
    /\ prPc = "off"
    /\ openaiApiKey = Unset
    /\ anthropicApiKey = Unset
    /\ userRequest = <<>>
    /\ currentParams = Undefined
    /\ strategies = <<>>
    /\ response = NoResponse

IdleEp ==
    /\ epPc = "off"
    /\ epRequest = UnparsableBody
    /\ epStatus = 0
    /\ epReply = NoReply
    /\ epParserCalls = 0

IdleVoice ==
    /\ isListening = FALSE
    /\ isRecording = FALSE
    /\ transcription = Null
    /\ recognition = "none"
    /\ recordingStateRef = 0
    /\ permissionRequests = 0
    /\ wakeTimers = 0
    /\ acquiring = 0
    /\ recordings = [id \in 1..MaxDetections |-> NoRecording]
    /\ uploads = 0
    /\ detections = 0

IdleSide == IdleEp /\ IdleVoice

Init ==
    /\ token \in Tokens
    /\ geolocation = FALSE
    /\ InitPage
    /\ mounted
    /\ IdleCmp /\ IdleDd /\ IdlePr /\ IdleSide

-----------------------------------------------------------------------------
(* destination-search.tsx *)

\* handleSearch(place): defers onStartNavigation by a 300 ms timer
handleSearch(d) ==
    /\ DestinationSearchShown
    /\ Outstanding < MaxOutstanding
    /\ timers' = Append(timers, d)
    /\ captured' = Append(captured, coordinates)
    /\ UNCHANGED <<navigationState, destination, route, alternativeRoutes,
                   selectedRouteIndex, showComparison, isCalculatingRoute,
                   selectedIndex, notice, pending, fetched, origin>>
    /\ UNCHANGED geoVars
    /\ UNCHANGED pureVars

-----------------------------------------------------------------------------
(* page.tsx: handlers *)

\* the timer callback: handleStartNavigation(dest) up to its await
handleStartNavigation ==
    /\ timers # <<>>
    /\ destination' = Head(timers)
    /\ navigationState' = "searching"
    /\ isCalculatingRoute' = TRUE
    /\ origin' = getOrigin(Head(captured))
    /\ pending' = Issue(RouteReq(Head(timers)))
    /\ fetched' = (fetched \/ firstStep("getRoute", FALSE, token) = "fetch")
    /\ timers' = Tail(timers)
    /\ captured' = Tail(captured)
    /\ UNCHANGED <<route, alternativeRoutes, selectedRouteIndex, showComparison,
                   selectedIndex, notice>>
    /\ useGeolocation
    /\ UNCHANGED pureVars

\* getRoute resolved with calculatedRoute
getRouteResolved(q, calculatedRoute) ==
    /\ q \in InFlight /\ q.kind = "route"
    /\ firstStep("getRoute", FALSE, token) = "fetch"
    /\ route' = calculatedRoute
    /\ navigationState' = "navigating"
    /\ isCalculatingRoute' = FALSE
    /\ pending' = Settle(q)
    /\ UNCHANGED <<destination, alternativeRoutes, selectedRouteIndex,
                   showComparison, selectedIndex, notice, timers>>
    /\ UNCHANGED reqVars
    /\ useGeolocation
    /\ UNCHANGED pureVars

\* the catch of handleStartNavigation without its setNavigationState("idle")
getRouteRejected_staysSearching(q) ==
    /\ q \in InFlight /\ q.kind = "route"
    /\ notice' = "route-failed"
    /\ isCalculatingRoute' = FALSE
    /\ pending' = Settle(q)
    /\ UNCHANGED <<navigationState, destination, route, alternativeRoutes,
                   selectedRouteIndex, showComparison, selectedIndex, timers>>
    /\ UNCHANGED reqVars
    /\ useGeolocation
    /\ UNCHANGED pureVars

\* getRoute rejected: catch and finally of handleStartNavigation
getRouteRejected(q) ==
    /\ q \in InFlight /\ q.kind = "route"
    /\ navigationState' = "idle"
    /\ notice' = "route-failed"
    /\ isCalculatingRoute' = FALSE
    /\ pending' = Settle(q)
    /\ UNCHANGED <<destination, route, alternativeRoutes, selectedRouteIndex,
                   showComparison, selectedIndex, timers>>
    /\ UNCHANGED reqVars
    /\ useGeolocation
    /\ UNCHANGED pureVars

\* handleModifyRoute(modifiedParams) up to its await
handleModifyRoute ==
    /\ NavigationInfoShown
    /\ IF destination = Null
       THEN UNCHANGED orchVars
       ELSE /\ Outstanding < MaxOutstanding
            /\ navigationState' = "searching"
            /\ isCalculatingRoute' = TRUE
            /\ origin' = getOrigin(coordinates)
            /\ pending' = Issue(AltReq(destination, route))
            /\ fetched' = (fetched \/ firstStep("getAlternativeRoutes", FALSE, token) = "fetch")
            /\ UNCHANGED <<destination, route, alternativeRoutes, selectedRouteIndex,
                           showComparison, selectedIndex, notice, timers, captured>>
            /\ useGeolocation
    /\ UNCHANGED pureVars

\* the completion with the candidate list stored before the length check
getAlternativeRoutesResolved_storesFirst(q, alternatives) ==
    /\ q \in InFlight /\ q.kind = "alternatives"
    /\ firstStep("getAlternativeRoutes", FALSE, token) = "fetch"
    /\ LET list == allRoutes(q.route, alternatives)
       IN  /\ alternativeRoutes' = list
           /\ IF Len(list) < 2
              THEN /\ navigationState' = "navigating"
                   /\ notice' = "no-alternatives"
                   /\ showComparison' = showComparison
                   /\ selectedIndex' = selectedIndexAfter(showComparison, list)
              ELSE /\ showComparison' = TRUE
                   /\ navigationState' = "comparing-routes"
                   /\ selectedIndex' = selectedIndexAfter(TRUE, list)
                   /\ UNCHANGED notice
    /\ isCalculatingRoute' = FALSE
    /\ pending' = Settle(q)
    /\ UNCHANGED <<destination, route, selectedRouteIndex, timers>>
    /\ UNCHANGED reqVars
    /\ useGeolocation
    /\ UNCHANGED pureVars

\* getAlternativeRoutes resolved with alternatives (never empty)
getAlternativeRoutesResolved(q, alternatives) ==
    /\ q \in InFlight /\ q.kind = "alternatives"
    /\ firstStep("getAlternativeRoutes", FALSE, token) = "fetch"
    /\ LET list == allRoutes(q.route, alternatives)
       IN  IF Len(list) < 2
           THEN /\ navigationState' = "navigating"
                /\ notice' = "no-alternatives"
                /\ UNCHANGED <<alternativeRoutes, showComparison, selectedIndex>>
           ELSE /\ alternativeRoutes' = list
                /\ showComparison' = TRUE
                /\ navigationState' = "comparing-routes"
                /\ selectedIndex' = selectedIndexAfter(TRUE, list)
                /\ UNCHANGED notice
    /\ isCalculatingRoute' = FALSE
    /\ pending' = Settle(q)
    /\ UNCHANGED <<destination, route, selectedRouteIndex, timers>>
    /\ UNCHANGED reqVars
    /\ useGeolocation
    /\ UNCHANGED pureVars

\* the catch of handleModifyRoute falling back to idle as handleStartNavigation's does
getAlternativeRoutesRejected_toIdle(q) ==
    /\ q \in InFlight /\ q.kind = "alternatives"
    /\ navigationState' = "idle"
    /\ notice' = "alternatives-failed"
    /\ isCalculatingRoute' = FALSE
    /\ pending' = Settle(q)
    /\ UNCHANGED <<destination, route, alternativeRoutes, selectedRouteIndex,
                   showComparison, selectedIndex, timers>>
    /\ UNCHANGED reqVars
    /\ useGeolocation
    /\ UNCHANGED pureVars

\* getAlternativeRoutes rejected: catch and finally of handleModifyRoute
getAlternativeRoutesRejected(q) ==
    /\ q \in InFlight /\ q.kind = "alternatives"
    /\ navigationState' = "navigating"
    /\ notice' = "alternatives-failed"
    /\ isCalculatingRoute' = FALSE
    /\ pending' = Settle(q)
    /\ UNCHANGED <<destination, route, alternativeRoutes, selectedRouteIndex,
                   showComparison, selectedIndex, timers>>
    /\ UNCHANGED reqVars
    /\ useGeolocation
    /\ UNCHANGED pureVars

\* RouteComparison.handleSelectRoute(index)
handleSelectRoute(index) ==
    /\ RouteComparisonShown
    /\ index \in 0..(Len(alternativeRoutes) - 1)
    /\ selectedIndex' = index
    /\ UNCHANGED <<navigationState, destination, route, alternativeRoutes,
                   selectedRouteIndex, showComparison, isCalculatingRoute,
                   notice, timers, pending>>
    /\ UNCHANGED reqVars
    /\ useGeolocation
    /\ UNCHANGED pureVars

\* handleConfirmRoute(selectedRoute) with a route given
handleConfirmRoute ==
    /\ showComparison' = FALSE
    /\ navigationState' = "navigating"
    /\ selectedIndex' = selectedIndexAfter(FALSE, alternativeRoutes)

\* the confirmation passing the head of the list instead of the selected entry
handleConfirm_passesHead ==
    /\ RouteComparisonShown
    /\ LET selectedRoute == alternativeRoutes[1]
           index == findIndex(alternativeRoutes, selectedRoute)
       IN  /\ selectedRouteIndex' = (IF index >= 0 THEN index ELSE 0)
           /\ route' = selectedRoute
    /\ handleConfirmRoute
    /\ UNCHANGED <<destination, alternativeRoutes, isCalculatingRoute, notice,
                   timers, pending>>
    /\ UNCHANGED reqVars
    /\ useGeolocation
    /\ UNCHANGED pureVars

\* RouteComparison.handleConfirm: onSelectRoute(routes[selectedIndex])
handleConfirm ==
    /\ RouteComparisonShown
    /\ IF selectedIndex < Len(alternativeRoutes)
       THEN LET selectedRoute == alternativeRoutes[selectedIndex + 1]
                index == findIndex(alternativeRoutes, selectedRoute)
            IN  /\ selectedRouteIndex' = (IF index >= 0 THEN index ELSE 0)
                /\ route' = selectedRoute
       ELSE UNCHANGED <<selectedRouteIndex, route>>
    /\ handleConfirmRoute
    /\ UNCHANGED <<destination, alternativeRoutes, isCalculatingRoute, notice,
                   timers, pending>>
    /\ UNCHANGED reqVars
    /\ useGeolocation
    /\ UNCHANGED pureVars

\* "Keep Current": onSelectRoute()
keepCurrent ==
    /\ RouteComparisonShown
    /\ handleConfirmRoute
    /\ UNCHANGED <<destination, route, alternativeRoutes, selectedRouteIndex,
                   isCalculatingRoute, notice, timers, pending>>
    /\ UNCHANGED reqVars
    /\ useGeolocation
    /\ UNCHANGED pureVars

\* the start-over handler hiding the candidate list as handleConfirmRoute does,
\* without emptying it
handleBackToSearch_keepsCandidates ==
    /\ NavigationInfoShown
    /\ navigationState' = "idle"
    /\ destination' = Null
    /\ route' = NullRoute
    /\ selectedRouteIndex' = 0
    /\ showComparison' = FALSE
    /\ selectedIndex' = 0
    /\ UNCHANGED <<alternativeRoutes, isCalculatingRoute, notice, timers, pending>>
    /\ UNCHANGED reqVars
    /\ useGeolocation
    /\ UNCHANGED pureVars

handleBackToSearch ==
    /\ NavigationInfoShown
    /\ navigationState' = "idle"
    /\ destination' = Null
    /\ route' = NullRoute
    /\ alternativeRoutes' = <<>>
    /\ selectedRouteIndex' = 0
    /\ showComparison' = FALSE
    /\ selectedIndex' = 0
    /\ UNCHANGED <<isCalculatingRoute, notice, timers, pending>>
    /\ UNCHANGED reqVars
    /\ useGeolocation
    /\ UNCHANGED pureVars

Next ==
    \/ \E d \in Dests : handleSearch(d)
    \/ handleStartNavigation
    \/ \E q \in InFlight, r \in Routes : getRouteResolved(q, r)
    \/ \E q \in InFlight : getRouteRejected(q)
    \/ handleModifyRoute
    \/ \E q \in InFlight, alts \in AltReplies : getAlternativeRoutesResolved(q, alts)
    \/ \E q \in InFlight : getAlternativeRoutesRejected(q)
    \/ \E i \in 0..MaxAlts : handleSelectRoute(i)
    \/ handleConfirm
    \/ keepCurrent
    \/ handleBackToSearch

Spec == Init /\ [][Next]_vars

\* a routing call in flight settles, with either outcome
resolve ==
    \E q \in InFlight :
       \/ \E r \in Routes : getRouteResolved(q, r)
       \/ getRouteRejected(q)
       \/ \E alts \in AltReplies : getAlternativeRoutesResolved(q, alts)
       \/ getAlternativeRoutesRejected(q)

\* the session under the hypothesis that every routing call in flight settles
SpecSettling == Init /\ [][Next]_vars /\ WF_vars(resolve)

-----------------------------------------------------------------------------
(* The session in a browser with navigator.geolocation *)

\* getCurrentPosition succeeded: the try of fetchLocation after its await
positionResolved(coords) ==
    /\ oneShots > 0
    /\ oneShots' = oneShots - 1
    /\ coordinates' = coords
    /\ loading' = FALSE
    /\ UNCHANGED <<watches, error, locationError, watchFix>>
    /\ UNCHANGED <<navigationState, destination, route, alternativeRoutes,
                   selectedRouteIndex, showComparison, isCalculatingRoute,
                   selectedIndex, notice, timers, pending>>
    /\ UNCHANGED reqVars
    /\ UNCHANGED pureVars

\* getCurrentPosition failed: the catch and finally of fetchLocation
positionRejected(err) ==
    /\ oneShots > 0
    /\ oneShots' = oneShots - 1
    /\ error' = err
    /\ locationError' = err
    /\ coordinates' = Null
    /\ loading' = FALSE
    /\ UNCHANGED <<watches, watchFix>>
    /\ UNCHANGED <<navigationState, destination, route, alternativeRoutes,
                   selectedRouteIndex, showComparison, isCalculatingRoute,
                   selectedIndex, notice, timers, pending>>
    /\ UNCHANGED reqVars
    /\ UNCHANGED pureVars

\* the success callback of the watch
watchCallback(coords) ==
    /\ watches > 0
    /\ coordinates' = coords
    /\ error' = Null
    /\ locationError' = Null
    /\ loading' = FALSE
    /\ watchFix' = coords
    /\ UNCHANGED <<watches, oneShots>>
    /\ UNCHANGED <<navigationState, destination, route, alternativeRoutes,
                   selectedRouteIndex, showComparison, isCalculatingRoute,
                   selectedIndex, notice, timers, pending>>
    /\ UNCHANGED reqVars
    /\ UNCHANGED pureVars

\* the error callback of the watch, resetting the session as well
watchErrorCallback_resetsSession(err) ==
    /\ watches > 0
    /\ error' = err
    /\ locationError' = err
    /\ coordinates' = Null
    /\ loading' = FALSE
    /\ watchFix' = Null
    /\ UNCHANGED <<watches, oneShots>>
    /\ destination' = Null
    /\ UNCHANGED <<navigationState, route, alternativeRoutes,
                   selectedRouteIndex, showComparison, isCalculatingRoute,
                   selectedIndex, notice, timers, pending>>
    /\ UNCHANGED reqVars
    /\ UNCHANGED pureVars

\* the error callback of the watch
watchErrorCallback(err) ==
    /\ watches > 0
    /\ error' = err
    /\ locationError' = err
    /\ coordinates' = Null
    /\ loading' = FALSE
    /\ watchFix' = Null
    /\ UNCHANGED <<watches, oneShots>>
    /\ UNCHANGED <<navigationState, destination, route, alternativeRoutes,
                   selectedRouteIndex, showComparison, isCalculatingRoute,
                   selectedIndex, notice, timers, pending>>
    /\ UNCHANGED reqVars
    /\ UNCHANGED pureVars

\* what the routing provider returns in these runs, and the failures of the
\* Geolocation API
LocationRoutes == {MkRoute(100, 60), MkRoute(112, 60)}
LocationErrors == {"Location access denied by user"}

InitLocation ==
    /\ token = "pk.token"
    /\ geolocation = TRUE
    /\ InitPage
    /\ mounted
    /\ IdleCmp /\ IdleDd /\ IdlePr /\ IdleSide

locationCallback ==
    \/ \E coords \in Fixes : positionResolved(coords)
    \/ \E err \in LocationErrors : positionRejected(err)
    \/ \E coords \in Fixes : watchCallback(coords)
    \/ \E err \in LocationErrors : watchErrorCallback(err)

NextLocation ==
    \/ handleSearch("d1")
    \/ handleStartNavigation
    \/ \E q \in InFlight, r \in LocationRoutes : getRouteResolved(q, r)
    \/ \E q \in InFlight : getRouteRejected(q)
    \/ handleModifyRoute
    \/ \E q \in InFlight, r \in LocationRoutes : getAlternativeRoutesResolved(q, <<r>>)
    \/ \E q \in InFlight : getAlternativeRoutesRejected(q)
    \/ handleSelectRoute(1)
    \/ handleConfirm
    \/ keepCurrent
    \/ handleBackToSearch
    \/ locationCallback

SpecLocation == InitLocation /\ [][NextLocation]_vars

-----------------------------------------------------------------------------
(* The session with replies of up to two alternatives that all differ *)

\* the route of getRoute and the replies of getAlternativeRoutes in these runs
ComparisonRoute == MkRoute(100, 60)
ComparisonReplies == {<<MkRoute(112, 60)>>, <<MkRoute(112, 60), MkRoute(130, 60)>>}

NextComparison ==
    \/ handleSearch("d1")
    \/ handleStartNavigation
    \/ \E q \in InFlight : getRouteResolved(q, ComparisonRoute)
    \/ \E q \in InFlight : getRouteRejected(q)
    \/ handleModifyRoute
    \/ \E q \in InFlight, alts \in ComparisonReplies :
          getAlternativeRoutesResolved(q, alts)
    \/ \E q \in InFlight : getAlternativeRoutesRejected(q)
    \/ \E i \in 0..2 : handleSelectRoute(i)
    \/ handleConfirm
    \/ keepCurrent
    \/ handleBackToSearch

SpecComparison == Init /\ [][NextComparison]_vars

-----------------------------------------------------------------------------
(* The voice hook: useMicrophone (src/unnamed/part_005) over microphoneService.ts *)

voiceFrame == UNCHANGED <<orchVars, cmpVars, ddVars, prVars, epVars, envVars>>

\* handleStopRecording: stopRecording on the recording of the ref, if any.
\* state.silenceTimer is the null copied at microphoneService.ts:175, so the
\* timer of the closure is left as it is; mediaRecorder.stop() leads to onstop,
\* which calls handleRecordingComplete up to its await of sendToServer
handleStopRecording ==
    IF recordingStateRef # 0
    THEN /\ recordings' = [recordings EXCEPT ![recordingStateRef].active = FALSE]
         /\ uploads' = uploads + (IF recordings[recordingStateRef].active THEN 1 ELSE 0)
         /\ recordingStateRef' = 0
    ELSE UNCHANGED <<recordings, uploads, recordingStateRef>>

\* toggleMute while not listening: startListening up to its await
startListening ==
    /\ ~isListening
    /\ ~isRecording
    /\ permissionRequests < MaxPermissionRequests
    /\ permissionRequests' = permissionRequests + 1
    /\ UNCHANGED <<isListening, isRecording, transcription, recognition,
                   recordingStateRef, wakeTimers, acquiring, recordings, uploads,
                   detections>>
    /\ voiceFrame

\* startListening after requestMicrophonePermission resolved
permissionSettled(hasPermission) ==
    /\ permissionRequests > 0
    /\ permissionRequests' = permissionRequests - 1
    /\ IF hasPermission
       THEN /\ isListening' = TRUE
            /\ recognition' = "started"
       ELSE UNCHANGED <<isListening, recognition>>
    /\ UNCHANGED <<isRecording, transcription, recordingStateRef, wakeTimers,
                   acquiring, recordings, uploads, detections>>
    /\ voiceFrame

\* toggleMute while listening: stopListening
stopListening ==
    /\ isListening
    /\ ~isRecording
    /\ recognition' = "none"
    /\ handleStopRecording
    /\ isListening' = FALSE
    /\ isRecording' = FALSE
    /\ UNCHANGED <<transcription, permissionRequests, wakeTimers, acquiring,
                   detections>>
    /\ voiceFrame

\* recognition.onresult with a transcript that includes the wake word
onresult ==
    /\ recognition = "started"
    /\ isListening
    /\ detections < MaxDetections
    /\ detections' = detections + 1
    /\ recognition' = "stopped"
    /\ wakeTimers' = wakeTimers + 1
    /\ UNCHANGED <<isListening, isRecording, transcription, recordingStateRef,
                   permissionRequests, acquiring, recordings, uploads>>
    /\ voiceFrame

\* recognition.onend after the stop() of onresult
onend ==
    /\ recognition = "stopped"
    /\ recognition' = (IF isListening THEN "started" ELSE "none")
    /\ UNCHANGED <<isListening, isRecording, transcription, recordingStateRef,
                   permissionRequests, wakeTimers, acquiring, recordings, uploads,
                   detections>>
    /\ voiceFrame

\* the 500 ms timer of onresult: handleWakeWordDetected up to its await
handleWakeWordDetected ==
    /\ wakeTimers > 0
    /\ wakeTimers' = wakeTimers - 1
    /\ isRecording' = TRUE
    /\ acquiring' = acquiring + 1
    /\ UNCHANGED <<isListening, transcription, recognition, recordingStateRef,
                   permissionRequests, recordings, uploads, detections>>
    /\ voiceFrame

\* getUserMedia resolved: startRecording, then handleWakeWordDetected stores
\* the state it returned
streamAcquired ==
    /\ acquiring > 0
    /\ acquiring' = acquiring - 1
    /\ recordings' = [recordings EXCEPT ![nextRecording] = MkRecording(TRUE, "none")]
    /\ recordingStateRef' = nextRecording
    /\ UNCHANGED <<isListening, isRecording, transcription, recognition,
                   permissionRequests, wakeTimers, uploads, detections>>
    /\ voiceFrame

\* getUserMedia rejected: startRecordingWithNewStream returns null, which
\* handleWakeWordDetected stores
streamFailed ==
    /\ acquiring > 0
    /\ acquiring' = acquiring - 1
    /\ recordingStateRef' = 0
    /\ UNCHANGED <<isListening, isRecording, transcription, recognition,
                   permissionRequests, wakeTimers, recordings, uploads, detections>>
    /\ voiceFrame

\* javascriptNode.onaudioprocess of a recording whose node is connected
onaudioprocess(id, silent) ==
    /\ recordings[id].active
    /\ recordings' = [recordings EXCEPT ![id].silenceTimer =
                         IF silent
                         THEN (IF @ = "none" THEN "armed" ELSE @)
                         ELSE "none"]
    /\ UNCHANGED <<isListening, isRecording, transcription, recognition,
                   recordingStateRef, permissionRequests, wakeTimers, acquiring,
                   uploads, detections>>
    /\ voiceFrame

\* the silence timer of a recording fires after SILENCE_DURATION:
\* onStopRecording(), which is handleStopRecording
silenceTimerFired(id) ==
    /\ recordings[id].silenceTimer = "armed"
    /\ IF recordingStateRef # 0
       THEN /\ recordings' = [recordings EXCEPT ![id].silenceTimer = "fired",
                                                ![recordingStateRef].active = FALSE]
            /\ uploads' = uploads + (IF recordings[recordingStateRef].active THEN 1 ELSE 0)
            /\ recordingStateRef' = 0
       ELSE /\ recordings' = [recordings EXCEPT ![id].silenceTimer = "fired"]
            /\ UNCHANGED <<uploads, recordingStateRef>>
    /\ UNCHANGED <<isListening, isRecording, transcription, recognition,
                   permissionRequests, wakeTimers, acquiring, detections>>
    /\ voiceFrame

\* the microphone button while isRecording: manualStopRecording
manualStopRecording ==
    /\ isRecording
    /\ handleStopRecording
    /\ UNCHANGED <<isListening, isRecording, transcription, recognition,
                   permissionRequests, wakeTimers, acquiring, detections>>
    /\ voiceFrame

\* handleRecordingComplete after sendToServer settled
handleRecordingComplete(text) ==
    /\ uploads > 0
    /\ uploads' = uploads - 1
    /\ transcription' = (IF text # Null THEN text ELSE transcription)
    /\ isRecording' = FALSE
    /\ UNCHANGED <<isListening, recognition, recordingStateRef, permissionRequests,
                   wakeTimers, acquiring, recordings, detections>>
    /\ voiceFrame

Transcriptions == {"avoid tolls"}

NextVoice ==
    \/ startListening
    \/ \E hasPermission \in BOOLEAN : permissionSettled(hasPermission)
    \/ stopListening
    \/ onresult
    \/ onend
    \/ handleWakeWordDetected
    \/ streamAcquired
    \/ streamFailed
    \/ \E id \in 1..MaxDetections, silent \in BOOLEAN : onaudioprocess(id, silent)
    \/ \E id \in 1..MaxDetections : silenceTimerFired(id)
    \/ manualStopRecording
    \/ \E text \in Transcriptions \cup {Null} : handleRecordingComplete(text)

InitVoice == InitOrch /\ IdleCmp /\ IdleDd /\ IdlePr /\ IdleSide

SpecVoice == InitVoice /\ [][NextVoice]_vars

\* the hook when every timer fires, every promise settles and every recording
\* that goes on meets 3.5 s of silence
SpecVoiceSettling ==
    /\ InitVoice
    /\ [][NextVoice]_vars
    /\ WF_vars(onend)
    /\ WF_vars(handleWakeWordDetected)
    /\ WF_vars(streamAcquired \/ streamFailed)
    /\ WF_vars(\E text \in Transcriptions \cup {Null} : handleRecordingComplete(text))
    /\ WF_vars(\E id \in 1..MaxDetections : onaudioprocess(id, TRUE))
    /\ SF_vars(\E id \in 1..MaxDetections : silenceTimerFired(id))

-----------------------------------------------------------------------------
(* One evaluation of isSignificantlyDifferent on drawn routes *)

InitCmp ==
    /\ InitOrch /\ IdleDd /\ IdlePr /\ IdleSide
    /\ cmpPc = "args"
    /\ cmpA \in CmpRoutes
    /\ cmpB \in CmpRoutes
    /\ cmpOut = FALSE

compare ==
    /\ cmpPc = "args"
    /\ cmpOut' = isSignificantlyDifferent(cmpA, cmpB)
    /\ cmpPc' = "done"
    /\ UNCHANGED <<cmpA, cmpB, orchVars, ddVars, prVars, sideVars>>

SpecCmp == InitCmp /\ [][compare]_vars

-----------------------------------------------------------------------------
(* One evaluation of the route-list construction on drawn inputs *)

InitDd ==
    /\ InitOrch /\ IdleCmp /\ IdlePr /\ IdleSide
    /\ ddPc = "args"
    /\ ddRef \in DdRoutes \cup {NullRoute}
    /\ ddCands \in SeqsUpTo(DdRoutes, MaxCands)
    /\ ddOut = <<>>

buildRouteList ==
    /\ ddPc = "args"
    /\ ddOut' = allRoutes(ddRef, ddCands)
    /\ ddPc' = "done"
    /\ UNCHANGED <<ddRef, ddCands, orchVars, cmpVars, prVars, sideVars>>

SpecDd == InitDd /\ [][buildRouteList]_vars

-----------------------------------------------------------------------------
(* llmService: one parseRouteRequest call on a drawn configuration, request
   and provider replies *)

\* the result built from a parsed reply without the default explanation
fromContent_rawExplanation(content) ==
    MkResponse(
        MkParams(Some(IF content.avoid = Undefined THEN <<>> ELSE Value(content.avoid)),
                 Some(IF content.waypoints = Undefined THEN <<>>
                      ELSE Value(content.waypoints)),
                 Some(IF content.profile = Undefined THEN "driving"
                      ELSE Value(content.profile))),
        IF content.explanation = Undefined THEN "" ELSE Value(content.explanation))

\* the result built from a parsed reply: `content.x || default`
fromContent(content) ==
    MkResponse(
        MkParams(Some(IF content.avoid = Undefined THEN <<>> ELSE Value(content.avoid)),
                 Some(IF content.waypoints = Undefined THEN <<>>
                      ELSE Value(content.waypoints)),
                 Some(IF content.profile = Undefined THEN "driving"
                      ELSE Value(content.profile))),
        IF content.explanation = Undefined \/ Value(content.explanation) = ""
        THEN "Route modified as requested."
        ELSE Value(content.explanation))

\* the selection with the two providers tested in the other order
parseRouteRequest_anthropicFirst ==
    /\ prPc = "args"
    /\ IF configured(anthropicApiKey)
       THEN /\ prPc' = "anthropic"
            /\ strategies' = <<"anthropic">>
            /\ UNCHANGED response
       ELSE IF configured(openaiApiKey)
       THEN /\ prPc' = "openai"
            /\ strategies' = <<"openai">>
            /\ UNCHANGED response
       ELSE /\ prPc' = "done"
            /\ strategies' = <<"rules">>
            /\ response' = parseWithRules(userRequest)
    /\ UNCHANGED <<openaiApiKey, anthropicApiKey, userRequest, currentParams>>
    /\ UNCHANGED <<orchVars, cmpVars, ddVars, sideVars>>

\* parseRouteRequest(request): selects the strategy; the two provider
\* strategies run up to their awaited fetch
parseRouteRequest ==
    /\ prPc = "args"
    /\ IF configured(openaiApiKey)
       THEN /\ prPc' = "openai"
            /\ strategies' = <<"openai">>
            /\ UNCHANGED response
       ELSE IF configured(anthropicApiKey)
       THEN /\ prPc' = "anthropic"
            /\ strategies' = <<"anthropic">>
            /\ UNCHANGED response
       ELSE /\ prPc' = "done"
            /\ strategies' = <<"rules">>
            /\ response' = parseWithRules(userRequest)
    /\ UNCHANGED <<openaiApiKey, anthropicApiKey, userRequest, currentParams>>
    /\ UNCHANGED <<orchVars, cmpVars, ddVars, sideVars>>

\* parseWithOpenAI after its fetch settled with reply
parseWithOpenAI(reply) ==
    /\ prPc = "openai"
    /\ IF reply.kind = "json"
       THEN /\ response' = fromContent(reply.content)
            /\ UNCHANGED strategies
       ELSE /\ response' = parseWithRules(userRequest)
            /\ strategies' = Append(strategies, "rules")
    /\ prPc' = "done"
    /\ UNCHANGED <<openaiApiKey, anthropicApiKey, userRequest, currentParams>>
    /\ UNCHANGED <<orchVars, cmpVars, ddVars, sideVars>>

\* parseWithAnthropic after its fetch settled with reply
parseWithAnthropic(reply) ==
    /\ prPc = "anthropic"
    /\ IF reply.kind = "json"
       THEN /\ response' = fromContent(reply.content)
            /\ UNCHANGED strategies
       ELSE /\ response' = parseWithRules(userRequest)
            /\ strategies' = Append(strategies, "rules")
    /\ prPc' = "done"
    /\ UNCHANGED <<openaiApiKey, anthropicApiKey, userRequest, currentParams>>
    /\ UNCHANGED <<orchVars, cmpVars, ddVars, sideVars>>

InitChain ==
    /\ InitOrch /\ IdleCmp /\ IdleDd /\ IdleSide
    /\ prPc = "args"
    /\ openaiApiKey \in KeyValues
    /\ anthropicApiKey \in KeyValues
    /\ userRequest \in SeqsUpTo(ChainWords, MaxWords)
    /\ currentParams = Undefined
    /\ strategies = <<>>
    /\ response = NoResponse

NextChain ==
    \/ parseRouteRequest
    \/ \E reply \in Replies : parseWithOpenAI(reply)
    \/ \E reply \in Replies : parseWithAnthropic(reply)

SpecChain == InitChain /\ [][NextChain]_vars

\* the call with no provider key configured, on every utterance and
\* currentParams
InitRules ==
    /\ InitOrch /\ IdleCmp /\ IdleDd /\ IdleSide
    /\ prPc = "args"
    /\ openaiApiKey \in {Unset, ""}
    /\ anthropicApiKey = Unset
    /\ userRequest \in SeqsUpTo(Words, MaxWords)
    /\ currentParams \in CurrentParamsValues
    /\ strategies = <<>>
    /\ response = NoResponse

SpecRules == InitRules /\ [][parseRouteRequest]_vars

-----------------------------------------------------------------------------
(* The intent endpoint: one POST on a drawn request body *)

\* how the awaited parseRouteRequest settles: with a result, or with an
\* error of some text
ParserOutcomes(body) ==
    IF Value(body.userRequest).type = "string"
    THEN {[kind |-> "resolved", result |-> r, error |-> ""] :
            r \in {parseWithRules(Value(body.userRequest).words)}
                     \cup {fromContent(c) : c \in Contents}}
    ELSE {[kind |-> "rejected", result |-> NoResponse, error |-> e] :
            e \in {"TypeError: request.userRequest.toLowerCase is not a function",
                    "Error with key sk-key"}}

\* the handler without its second validation
POST_noEndsCheck ==
    /\ epPc = "args"
    /\ IF epRequest.kind \in {"unparsable", "null"}
       THEN /\ epStatus' = 500
            /\ epReply' = FailedReply
            /\ epPc' = "done"
            /\ UNCHANGED epParserCalls
       ELSE IF falsy(epRequest.userRequest) \/ epRequest.currentRoute = Undefined
       THEN /\ epStatus' = 400
            /\ epReply' = MissingFieldsReply
            /\ epPc' = "done"
            /\ UNCHANGED epParserCalls
       ELSE /\ epParserCalls' = epParserCalls + 1
            /\ epPc' = "parsing"
            /\ UNCHANGED <<epStatus, epReply>>
    /\ UNCHANGED epRequest
    /\ UNCHANGED <<orchVars, cmpVars, ddVars, prVars, envVars, voiceVars>>

\* POST(request) up to its await of parseRouteRequest: request.json() and
\* the property reads on its value throw into the catch
POST ==
    /\ epPc = "args"
    /\ IF epRequest.kind \in {"unparsable", "null"}
       THEN /\ epStatus' = 500
            /\ epReply' = FailedReply
            /\ epPc' = "done"
            /\ UNCHANGED epParserCalls
       ELSE IF falsy(epRequest.userRequest) \/ epRequest.currentRoute = Undefined
       THEN /\ epStatus' = 400
            /\ epReply' = MissingFieldsReply
            /\ epPc' = "done"
            /\ UNCHANGED epParserCalls
       ELSE IF \/ Value(epRequest.currentRoute).origin = Undefined
               \/ Value(epRequest.currentRoute).destination = Undefined
       THEN /\ epStatus' = 400
            /\ epReply' = MissingEndsReply
            /\ epPc' = "done"
            /\ UNCHANGED epParserCalls
       ELSE /\ epParserCalls' = epParserCalls + 1
            /\ epPc' = "parsing"
            /\ UNCHANGED <<epStatus, epReply>>
    /\ UNCHANGED epRequest
    /\ UNCHANGED <<orchVars, cmpVars, ddVars, prVars, envVars, voiceVars>>

\* POST after parseRouteRequest settled
POSTResumed(outcome) ==
    /\ epPc = "parsing"
    /\ IF outcome.kind = "resolved"
       THEN /\ epStatus' = 200
            /\ epReply' = MkReply("result", outcome.result)
       ELSE /\ epStatus' = 500
            /\ epReply' = FailedReply
    /\ epPc' = "done"
    /\ UNCHANGED <<epRequest, epParserCalls>>
    /\ UNCHANGED <<orchVars, cmpVars, ddVars, prVars, envVars, voiceVars>>

InitEndpoint ==
    /\ InitOrch /\ IdleCmp /\ IdleDd /\ IdlePr /\ IdleVoice
    /\ epPc = "args"
    /\ epRequest \in Bodies
    /\ epStatus = 0
    /\ epReply = NoReply
    /\ epParserCalls = 0

NextEndpoint ==
    \/ POST
    \/ /\ epPc = "parsing"
       /\ \E outcome \in ParserOutcomes(epRequest) : POSTResumed(outcome)

SpecEndpoint == InitEndpoint /\ [][NextEndpoint]_vars

-----------------------------------------------------------------------------
(* Claims *)

AllowedTransitions ==
    { <<"idle", "searching">>, <<"searching", "navigating">>,
      <<"searching", "idle">>, <<"navigating", "searching">>,
      <<"searching", "comparing-routes">>, <<"comparing-routes", "navigating">>,
      <<"navigating", "idle">> }

\* C1: every change of navigationState is one of idle->searching,
\* searching->navigating, searching->idle, navigating->searching,
\* searching->comparing-routes, comparing-routes->navigating, navigating->idle.
C1_OnlyListedTransitions ==
    [][navigationState' # navigationState
         => <<navigationState, navigationState'>> \in AllowedTransitions]_vars

\* C2: in navigating and in comparing-routes the active route is non-null;
\* the route is null only in idle or searching.
C2_ActiveRouteSet ==
    /\ navigationState \in {"navigating", "comparing-routes"} => route # NullRoute
    /\ route = NullRoute => navigationState \in {"idle", "searching"}

\* C3: the candidate list is non-empty only in comparing-routes (so it is
\* empty once handleConfirmRoute has returned the session to navigating).
C3_CandidatesOnlyWhileComparing ==
    alternativeRoutes # <<>> => navigationState = "comparing-routes"

\* C4: for route1 with positive distance and duration, the comparator answers
\* true exactly when |d1 - d2| / d1 > 0.10 or |t1 - t2| / t1 > 0.15 (strict,
\* first argument in the denominator); 10000 m / 1200 s against
\* 10500 m / 1250 s is not different, against 12000 m / 1200 s it is.
C4_ThresholdsExact ==
    cmpPc = "done" =>
        /\ (cmpA.distance > 0 /\ cmpA.duration > 0) =>
              (cmpOut <=> \/ 10 * Abs(cmpA.distance - cmpB.distance) > cmpA.distance
                          \/ 20 * Abs(cmpA.duration - cmpB.duration) > 3 * cmpA.duration)
        /\ (cmpA = MkRoute(10000, 1200) /\ cmpB = MkRoute(10500, 1250)) => ~cmpOut
        /\ (cmpA = MkRoute(10000, 1200) /\ cmpB = MkRoute(12000, 1200)) => cmpOut

C4_Witness ==
    /\ cmpPc = "done"
    /\ cmpA = MkRoute(10000, 1200)
    /\ cmpB = MkRoute(12000, 1200)
    /\ cmpOut

RECURSIVE greedyFrom(_, _, _)
\* the single-pass filter of the claim: keep a candidate iff it differs from
\* every candidate kept so far and from the reference
greedyFrom(ref, cands, kept) ==
    IF cands = <<>> THEN kept
    ELSE LET c == Head(cands)
             keep == /\ \A k \in 1..Len(kept) : isSignificantlyDifferent(kept[k], c)
                     /\ ref # NullRoute => isSignificantlyDifferent(ref, c)
         IN  greedyFrom(ref, Tail(cands), IF keep THEN Append(kept, c) ELSE kept)

greedyList(ref, cands) ==
    (IF ref # NullRoute THEN <<ref>> ELSE <<>>) \o greedyFrom(ref, cands, <<>>)

\* C5: the route list built in handleModifyRoute equals the single-pass greedy
\* filter over the candidates with the reference prepended; a candidate
\* dropped for being similar to the reference never causes a later candidate
\* to be dropped.
C5_SinglePassGreedy ==
    ddPc = "done" => ddOut = greedyList(ddRef, ddCands)

\* C6: whenever a modification request moves the session into
\* comparing-routes, the candidate list has at least 2 entries and its
\* element 0 is the route that was active when the request was made.
C6_ComparisonListHeadedByCurrent ==
    [][\A q \in InFlight :
          (/\ navigationState' = "comparing-routes"
           /\ q.kind = "alternatives"
           /\ pending' = Settle(q))
          => (/\ Len(alternativeRoutes') >= 2
              /\ alternativeRoutes'[1] = q.route)]_vars

C6_Witness ==
    /\ navigationState = "comparing-routes"
    /\ showComparison
    /\ Len(alternativeRoutes) >= 2
    /\ alternativeRoutes[1] = route

\* C7: a modification request made from navigating with an active route
\* whose route list has fewer than 2 entries ends in navigating, and neither
\* its issue nor its completion changes the active route, sets the candidate
\* list or enters comparing-routes: every step either ends in navigating with
\* the three left alone, or is not the completion of such a request.
C7_NoAlternativeIsNoOp ==
    [][/\ handleModifyRoute =>
            /\ navigationState' # "comparing-routes"
            /\ UNCHANGED <<route, alternativeRoutes, showComparison>>
       /\ \/ /\ navigationState' = "navigating"
             /\ UNCHANGED <<route, alternativeRoutes, showComparison>>
          \/ \A q \in InFlight :
                (q.kind = "alternatives" /\ pending' = Settle(q)) =>
                   \A alts \in AltReplies :
                      ~(/\ Len(allRoutes(q.route, alts)) < 2
                        /\ getAlternativeRoutesResolved(q, alts))]_vars

C7_Witness ==
    /\ notice = "no-alternatives"
    /\ navigationState = "navigating"
    /\ route # NullRoute
    /\ alternativeRoutes = <<>>
    /\ ~showComparison

\* C8: from idle, selecting a destination whose route fetch fails ends in
\* idle with destination and active route both null.
C8_FailedFetchClearsSession ==
    [][\A q \in InFlight :
          getRouteRejected(q)
          => (/\ navigationState' = "idle"
              /\ destination' = Null
              /\ route' = NullRoute)]_vars

\* C9: from idle, selecting a destination whose route fetch succeeds ends in
\* navigating with the active route equal to the fetched route and the
\* destination equal to the destination chosen for that fetch.
C9_SuccessfulFetchSetsSession ==
    [][\A q \in InFlight, r \in Routes :
          getRouteResolved(q, r)
          => (/\ navigationState' = "navigating"
              /\ route' = r
              /\ destination' = q.dest)]_vars

\* C10: a modification request whose alternatives fetch fails ends in
\* navigating, and its completion leaves the active route, the destination and
\* the candidate list unchanged.
C10_FailedModificationKeepsSession ==
    [][\A q \in InFlight :
          getAlternativeRoutesRejected(q)
          => (/\ navigationState' = "navigating"
              /\ UNCHANGED <<route, destination, alternativeRoutes>>)]_vars

C10_Witness ==
    /\ notice = "alternatives-failed"
    /\ navigationState = "navigating"
    /\ route # NullRoute
    /\ destination # Null

\* C11: in comparing-routes, confirming the candidate at index k makes
\* alternativeRoutes[k] the active route and returns to navigating; "keep
\* current" returns to navigating with the active route unchanged.
C11_ConfirmSetsSelected ==
    [][/\ (/\ navigationState = "comparing-routes"
           /\ selectedIndex < Len(alternativeRoutes)
           /\ handleConfirm)
          => (/\ route' = alternativeRoutes[selectedIndex + 1]
              /\ navigationState' = "navigating")
       /\ (navigationState = "comparing-routes" /\ keepCurrent)
          => (/\ route' = route
              /\ navigationState' = "navigating")]_vars

C11_Witness ==
    /\ navigationState = "navigating"
    /\ ~showComparison
    /\ selectedRouteIndex = 1
    /\ Len(alternativeRoutes) >= 2
    /\ route = alternativeRoutes[2]

\* C12: "start over" from navigating moves to idle with destination null,
\* active route null, candidate list empty and selected candidate index 0,
\* whatever happened before it.
C12_StartOverResets ==
    [][handleBackToSearch
         => (/\ navigationState' = "idle"
             /\ destination' = Null
             /\ route' = NullRoute
             /\ alternativeRoutes' = <<>>
             /\ selectedRouteIndex' = 0)]_vars

C12_Witness ==
    /\ navigationState = "idle"
    /\ destination = Null
    /\ route = NullRoute
    /\ alternativeRoutes = <<>>
    /\ selectedRouteIndex = 0
    /\ notice = "no-alternatives"

\* C13: provided the routing calls in flight settle (success or failure),
\* whenever the state is searching it eventually is idle, navigating or
\* comparing-routes with isCalculatingRoute false; no path stays in searching.
C13_SearchingIsTransient ==
    (navigationState = "searching")
       ~> (/\ navigationState \in {"idle", "navigating", "comparing-routes"}
           /\ ~isCalculatingRoute)

C13_Witness ==
    /\ navigationState = "idle"
    /\ notice = "route-failed"
    /\ ~isCalculatingRoute
    /\ pending = EmptyBag
    /\ timers = <<>>

\* C14: at most one routing-provider request (getRoute or
\* getAlternativeRoutes) is in flight at any time, also when the destination
\* control is activated more than once.
C14_AtMostOneInFlight ==
    BagCardinality(pending) <= 1

\* C15: with both provider keys configured, a request whose primary (OpenAI)
\* call fails at runtime is next attempted with the secondary (Anthropic)
\* provider, before any rule-based answer.
C15_PrimaryFailureTriesSecondary ==
    [][\A reply \in Replies :
          (/\ configured(openaiApiKey) /\ configured(anthropicApiKey)
           /\ reply.kind \in Failures
           /\ parseWithOpenAI(reply))
          => (/\ prPc' = "anthropic"
              /\ strategies' = <<"openai", "anthropic">>)]_vars

\* C16: whatever the utterance and whatever the provider call produces
\* (network failure, non-2xx status, invalid JSON, reply missing fields),
\* parseRouteRequest resolves with a result holding modifiedParams and a
\* non-empty explanation.
C16_NeverFailsOutward ==
    /\ prPc \in {"off", "args", "openai", "anthropic", "done"}
    /\ prPc = "done" =>
          /\ response.explanation # ""
          /\ response.modifiedParams.profile # Undefined
    /\ prPc = "openai" => \A reply \in Replies : ENABLED parseWithOpenAI(reply)
    /\ prPc = "anthropic" => \A reply \in Replies : ENABLED parseWithAnthropic(reply)

C16_Witness ==
    /\ prPc = "done"
    /\ strategies = <<"anthropic", "rules">>
    /\ response.explanation # ""

\* C17: the first strategy entered is the primary provider if its key is
\* configured, else the secondary if its key is configured, else the
\* rule-based matcher; with no key configured the rule-based matcher answers
\* and no provider is called.
C17_FirstAvailableStrategy ==
    /\ strategies # <<>> =>
          Head(strategies) = (IF openaiApiKey \notin {Unset, ""} THEN "openai"
                              ELSE IF anthropicApiKey \notin {Unset, ""} THEN "anthropic"
                              ELSE "rules")
    /\ (/\ prPc = "done"
        /\ openaiApiKey \in {Unset, ""}
        /\ anthropicApiKey \in {Unset, ""})
          => (/\ strategies = <<"rules">>
              /\ response = parseWithRules(userRequest))

C17_Witness ==
    /\ prPc = "done"
    /\ openaiApiKey = ""
    /\ anthropicApiKey = "sk-key"
    /\ Head(strategies) = "anthropic"

\* the keyword families of the rule-based matcher in their order, and what
\* each yields
Families ==
    << {<<"scenic">>, <<"scenery">>},
       {<<"avoid", "highway">>, <<"no", "highway">>},
       {<<"avoid", "toll">>},
       {<<"fastest">>, <<"quickest">>},
       {<<"shortest">>},
       {<<"alternative">>, <<"different">>} >>

matchedFamilies(text) ==
    {f \in 1..Len(Families) : \E phrase \in Families[f] : includes(text, phrase)}

FamilyParams ==
    << MkParams(Some(<<"motorway">>), Undefined, Some("driving")),
       MkParams(Some(<<"motorway">>), Undefined, Some("driving")),
       MkParams(Some(<<"toll">>), Undefined, Some("driving")),
       MkParams(Undefined, Undefined, Some("driving-traffic")),
       MkParams(Undefined, Undefined, Some("driving")),
       MkParams(Undefined, Undefined, Some("driving")) >>

FamilyExplanation ==
    << "I'll route you through scenic backroads, avoiding highways.",
       "I'll find a route that avoids highways.",
       "I'll find a route that avoids toll roads.",
       "I'll find the fastest route considering traffic.",
       "I'll find the shortest route.",
       "I'll find an alternative route for you." >>

\* C18: the rule-based matcher is first-match-wins: for an utterance with
\* keywords of several families, the earliest family in the order scenic,
\* avoid/no highway, avoid toll, fastest/quickest, shortest,
\* alternative/different alone determines the output; "scenic" with "avoid
\* toll" yields the highway avoidance and not the toll avoidance.
C18_FirstMatchWins ==
    prPc = "done" =>
       LET matched == matchedFamilies(toLowerCase(userRequest))
       IN  /\ matched # {} =>
                LET first == CHOOSE f \in matched : \A g \in matched : f <= g
                IN  /\ response.modifiedParams = FamilyParams[first]
                    /\ response.explanation = FamilyExplanation[first]
           /\ {1, 3} \subseteq matched =>
                /\ response.modifiedParams.avoid # Undefined
                /\ \A i \in 1..Len(Value(response.modifiedParams.avoid)) :
                      Value(response.modifiedParams.avoid)[i] # "toll"

C18_Witness ==
    /\ prPc = "done"
    /\ userRequest = <<"Scenic", "avoid", "toll">>
    /\ response.modifiedParams.avoid = Some(<<"motorway">>)

\* C19 as stated: an utterance whose lower-cased text contains "avoid
\* highway" or "no highway", or scenic/scenery, yields avoid = {highway}
\* with a non-empty explanation.
C19_HighwayKeywordsAvoidHighway ==
    (/\ prPc = "done"
     /\ matchedFamilies(toLowerCase(userRequest)) \cap {1, 2} # {})
       => (/\ response.modifiedParams.avoid = Some(<<"highway">>)
           /\ response.explanation # "")

\* C19 as amended: such an utterance yields avoid = {motorway}, the routing
\* provider's tag for highways, with a non-empty explanation.
C19_HighwayKeywordsAvoidMotorway ==
    (/\ prPc = "done"
     /\ matchedFamilies(toLowerCase(userRequest)) \cap {1, 2} # {})
       => (/\ response.modifiedParams.avoid = Some(<<"motorway">>)
           /\ response.explanation # "")

C19_Witness ==
    /\ prPc = "done"
    /\ userRequest = <<"avoid", "highways", "asdkjasd">>
    /\ response.modifiedParams.avoid = Some(<<"motorway">>)
    /\ response.explanation # ""

\* C20: for an utterance matching no family, or only alternative/different,
\* the rule-based result has the avoid, waypoints and profile of the
\* request's currentParams (an absent profile being the default, driving)
\* and a non-empty explanation.
C20_NoMatchKeepsCurrentParams ==
    (/\ prPc = "done"
     /\ matchedFamilies(toLowerCase(userRequest)) \subseteq {6})
       => LET current == IF currentParams = Undefined
                         THEN MkParams(Undefined, Undefined, Undefined)
                         ELSE Value(currentParams)
          IN  /\ response.modifiedParams.avoid = current.avoid
              /\ response.modifiedParams.waypoints = current.waypoints
              /\ response.modifiedParams.profile =
                    (IF current.profile = Undefined THEN Some("driving")
                     ELSE current.profile)
              /\ response.explanation # ""

\* the profiles of RouteModificationParams
Profiles == {"driving", "walking", "cycling", "driving-traffic"}

\* C21: for any JSON object a provider returns, the result is structurally
\* valid: its profile is one of driving, walking, cycling, driving-traffic
\* (and avoid and waypoints are present as sequences).
C21_ResultStructurallyValid ==
    prPc = "done" =>
       /\ response.modifiedParams.profile # Undefined
       /\ Value(response.modifiedParams.profile) \in Profiles
       /\ strategies \in {<<"openai">>, <<"anthropic">>} =>
             /\ response.modifiedParams.avoid # Undefined
             /\ response.modifiedParams.waypoints # Undefined

\* C27: with a zero-length first route the comparator answers (no error),
\* reports different whenever the second route has nonzero length, and
\* reports not different only when both lengths are zero.
C27_ZeroLengthReference ==
    (cmpPc = "done" /\ cmpA.distance = 0) =>
        /\ cmpOut \in BOOLEAN
        /\ cmpB.distance # 0 => cmpOut
        /\ ~cmpOut => (cmpA.distance = 0 /\ cmpB.distance = 0)

C27_Witness ==
    /\ cmpPc = "done"
    /\ cmpA = MkRoute(0, 20)
    /\ cmpB = MkRoute(100, 20)
    /\ cmpOut

\* every candidate is below both thresholds relative to the reference
allBelowThresholds(ref, cands) ==
    \A k \in 1..Len(cands) :
       /\ 10 * Abs(ref.distance - cands[k].distance) <= ref.distance
       /\ 20 * Abs(ref.duration - cands[k].duration) <= 3 * ref.duration

\* C28 as stated: when every candidate is below both thresholds relative to
\* the reference the route list is exactly [reference]; with no reference
\* route it is empty.
C28_AllSimilarGivesReferenceOrEmpty ==
    ddPc = "done" =>
       /\ (ddRef # NullRoute /\ allBelowThresholds(ddRef, ddCands))
             => ddOut = <<ddRef>>
       /\ ddRef = NullRoute => ddOut = <<>>

\* C28 as amended: when every candidate is below both thresholds relative to
\* the reference the route list is exactly [reference]; with no reference
\* route it is empty only for an empty candidate list, and otherwise starts
\* with the first candidate.
C28_AllSimilarGivesReference ==
    ddPc = "done" =>
       /\ (ddRef # NullRoute /\ allBelowThresholds(ddRef, ddCands))
             => ddOut = <<ddRef>>
       /\ ddRef = NullRoute =>
             /\ ddOut = <<>> <=> ddCands = <<>>
             /\ ddCands # <<>> => ddOut[1] = ddCands[1]

C28_Witness ==
    /\ ddPc = "done"
    /\ ddRef = MkRoute(100, 60)
    /\ ddCands = <<MkRoute(105, 60), MkRoute(105, 60)>>
    /\ ddOut = <<MkRoute(100, 60)>>

\* C29: isSignificantlyDifferent(a, a) is false for every route a with
\* positive distance and duration.
C29_Irreflexive ==
    (/\ cmpPc = "done"
     /\ cmpA = cmpB
     /\ cmpA.distance > 0
     /\ cmpA.duration > 0) => ~cmpOut

C29_Witness ==
    /\ cmpPc = "done"
    /\ cmpA = MkRoute(10000, 1200)
    /\ cmpB = MkRoute(10000, 1200)
    /\ ~cmpOut

\* the body is an object lacking userRequest, currentRoute, origin or
\* destination
fieldMissing(body) ==
    /\ body.kind = "object"
    /\ \/ body.userRequest = Undefined
       \/ Value(body.userRequest) = [type |-> "string", words |-> <<>>]
       \/ body.currentRoute = Undefined
       \/ Value(body.currentRoute).origin = Undefined
       \/ Value(body.currentRoute).destination = Undefined

C26_DestinationsAreRetrieved ==
    /\ \A i \in 1..Len(timers) :
          destinationCoordinates(timers[i]) = retrievePlace(timers[i]).coordinates
    /\ \A q \in InFlight :
          q.kind = "route" =>
             /\ destinationCoordinates(q.dest) = retrievePlace(q.dest).coordinates
             /\ destinationCoordinates(q.dest) # PlaceholderCoordinates

\* C30: without a routing token searchPlaces, retrievePlace, getRoute and
\* getAlternativeRoutes each fail with the configuration error before any
\* network request, and the session never reaches navigating or
\* comparing-routes.
C30_NoTokenNoRouting ==
    ~configured(token) =>
       /\ \A method \in ServiceMethods, blankQuery \in BOOLEAN :
             firstStep(method, blankQuery, token) = "configuration-error"
       /\ ~fetched
       /\ navigationState \notin {"navigating", "comparing-routes"}
       /\ route = NullRoute

C30_Witness ==
    /\ ~configured(token)
    /\ destination # Null
    /\ notice = "route-failed"
    /\ navigationState = "idle"
    /\ pending = EmptyBag

\* C23: a location watch is active exactly while navigationState is
\* navigating, and never more than one; entering navigating starts it and
\* requests no one-shot fix; every transition out of navigating clears it and
\* requests a one-shot fix; no other step starts a watch.
C23_WatchExactlyWhileNavigating ==
    /\ [](/\ watches <= 1
          /\ watches = 1 <=> navigationState = "navigating")
    /\ [][/\ (navigationState # "navigating" /\ navigationState' = "navigating")
                => (watches' = watches + 1 /\ oneShots' = oneShots)
          /\ (navigationState = "navigating" /\ navigationState' # "navigating")
                => (watches' = 0 /\ oneShots' = oneShots + 1)
          /\ (navigationState # "navigating" /\ navigationState' # "navigating")
                => (watches' = 0 /\ oneShots' <= oneShots)]_vars

C23_Witness ==
    /\ navigationState = "comparing-routes"
    /\ watches = 0
    /\ oneShots = 2
    /\ coordinates \in Fixes

\* C24: a location callback (a fix or an error, of the watch or of a one-shot
\* request) leaves navigationState, destination, the active route and the
\* candidate list unchanged, as well as the rest of the session state.
C24_LocationCallbacksKeepSession ==
    [][locationCallback =>
          /\ UNCHANGED <<navigationState, destination, route, alternativeRoutes>>
          /\ UNCHANGED <<selectedRouteIndex, showComparison, isCalculatingRoute,
                         selectedIndex, notice, timers, pending, reqVars>>]_vars

C24_Witness ==
    /\ navigationState = "navigating"
    /\ watches = 1
    /\ oneShots = 0
    /\ locationError \in LocationErrors
    /\ coordinates = Null
    /\ destination = "d1"
    /\ route = MkRoute(100, 60)

\* C25: the origin of every routing request, initial or modification, is the
\* live fix if there is one at the time of the request, the default
\* coordinate otherwise.
C25_OriginIsLiveFixOrDefault ==
    [][BagCardinality(pending') > BagCardinality(pending)
          => origin' = getOrigin(coordinates)]_vars

\* C32: in every candidate list built for comparison, every pair of entries at
\* positions i < j satisfies isSignificantlyDifferent(list[i], list[j]), the
\* earlier entry as reference: no two listed routes are near-duplicates of
\* each other, and none is a near-duplicate of the current route at position 0.
C32_ListedRoutesPairwiseDifferent ==
    ddPc = "done" =>
       \A i \in 1..Len(ddOut), j \in 1..Len(ddOut) :
          i < j => isSignificantlyDifferent(ddOut[i], ddOut[j])

C32_Witness ==
    /\ ddPc = "done"
    /\ ddRef = MkRoute(100, 60)
    /\ ddCands = <<MkRoute(130, 90), MkRoute(112, 60), MkRoute(105, 60)>>
    /\ ddOut = <<MkRoute(100, 60), MkRoute(130, 90), MkRoute(112, 60)>>

\* C33: once a live fix has been the origin of a routing request of the
\* session, a later modification request of the session does not use the
\* default coordinate as its origin.
C33_OriginNeverFallsBack ==
    [][(/\ navigationState = "navigating"
        /\ origin \in Fixes
        /\ \E q \in BagToSet(pending') :
              /\ q.kind = "alternatives"
              /\ CopiesIn(q, pending') > CopiesIn(q, pending))
          => origin' # DefaultOrigin]_vars

\* C34: showComparison is true exactly when navigationState is
\* comparing-routes, and isCalculatingRoute is true exactly when
\* navigationState is searching.
C34_FlagsAgreeWithState ==
    /\ showComparison <=> navigationState = "comparing-routes"
    /\ isCalculatingRoute <=> navigationState = "searching"

\* C36: a one-shot location request that settles while the hook holds a fix
\* delivered by the watch neither overwrites nor clears the coordinates, and
\* does not set the error.
C36_OneShotKeepsWatchFix ==
    [][(oneShots' < oneShots /\ watchFix # Null)
          => (coordinates' = watchFix /\ error' = error)]_vars

\* C35: whenever navigationState is comparing-routes, selectedRouteIndex is a
\* valid index into the candidate list, also on a later modification request
\* that follows a confirmed selection of a non-zero index.
C35_SelectedRouteIndexValid ==
    navigationState = "comparing-routes" =>
       (0 <= selectedRouteIndex /\ selectedRouteIndex < Len(alternativeRoutes))

\* C31: a silence timer that fires while its recording is active stops that
\* recording, a recording is stopped by a silence timer only if the timer is
\* its own (its level has stayed below the threshold since the timer was
\* armed), and a sample above the threshold cancels the timer of its recording.
C31_SilenceStopsOwnRecording ==
    [][\A id \in 1..MaxDetections :
          /\ (recordings[id].silenceTimer = "armed"
              /\ recordings'[id].silenceTimer = "fired")
                => /\ recordings[id].active => ~recordings'[id].active
                   /\ \A other \in 1..MaxDetections :
                         (recordings[other].active /\ ~recordings'[other].active)
                            => other = id
          /\ onaudioprocess(id, FALSE) => recordings'[id].silenceTimer = "none"]_vars

\* C37: isRecording is true only while isListening is true, and no recording
\* runs while the hook is muted.
C37_RecordingOnlyWhileListening ==
    /\ isRecording => isListening
    /\ ~isListening => \A id \in 1..MaxDetections : ~recordings[id].active

\* C38: isRecording always returns to false eventually.
C38_RecordingEventuallyEnds ==
    isRecording ~> ~isRecording

\* C39: a recording that has been stopped has no pending silence timer, and
\* the silence timer of a stopped recording stops no recording.
C39_StoppedRecordingHasNoTimer ==
    /\ [](\A id \in 1..MaxDetections :
             (recordings[id] # NoRecording /\ ~recordings[id].active)
                => recordings[id].silenceTimer # "armed")
    /\ [][\A id \in 1..MaxDetections :
             (/\ ~recordings[id].active
              /\ recordings[id].silenceTimer = "armed"
              /\ recordings'[id].silenceTimer = "fired")
                => \A other \in 1..MaxDetections :
                      recordings'[other].active = recordings[other].active]_vars

=============================================================================
